---- MODULE Spec2Model ----
(***************************************************************************)
(* gpCAM: the autonomous loop of AutonomousExperimenterGP                  *)
(* (src/gpcam/autonomous_experimenter.py) and the acquisition-function     *)
(* optimizer dispatch (src/gpcam/surrogate_model.py).                      *)
(*                                                                         *)
(* Floats are abstracted to small integers, arrays to their shapes or to   *)
(* sequences of record identifiers; the surrogate engine, the optimizers,  *)
(* the instrument and the user callables are nondeterministic inputs.      *)
(***************************************************************************)
EXTENDS Integers, Sequences, FiniteSets, TLC

\* ------------------------------------------------------------ bounds ----
MaxN == 3          \* largest target N passed to go()
MaxInit == 2       \* largest initial dataset
MaxIter == 3       \* loop bodies explored per go() run
MaxHandles == 2    \* async trainings started by public train_async calls before go()

\* --------------------------------------------------------- constants ----
NoClient == 0      \* None as a dask client
UserTrainingClient == 1   \* a client injected by the caller for training
UserAcqClient == 2        \* a client injected by the caller for acquisition
FirstOwnClient == 3       \* first dask.distributed.Client() the program creates
NoHandle == 0      \* self.opt_obj not set yet

Min(a, b) == IF a < b THEN a ELSE b
Abs(a) == IF a < 0 THEN 0 - a ELSE a
Last(s) == s[Len(s)]

\* value sets of the abstracted floats
Errors == {0, 1}          \* np.max(np.sqrt(post_var))
Scores == {-1, 2}         \* func_evals[0]
InitTol == 1              \* acq_func_opt_tol on entry

\* measurement-count schedules a caller may pass
Schedules == {{}, {1}, {2}}
CostSchedules == {{}, {1}}
SettingMethods == {"global", "local", "hgdl", "bogus"}

\* ------------------------------------------------- configuration ----
CtorParams ==
  [ init_dataset_size : 1..MaxInit,
    run_every_iteration : BOOLEAN,          \* TRUE: a hook is given
    communicate_full_dataset : BOOLEAN,
    training_dask_client : {NoClient, UserTrainingClient},
    acq_func_opt_dask_client : {NoClient, UserAcqClient} ]

DefaultCtor ==
  [ init_dataset_size |-> 1,
    run_every_iteration |-> FALSE,
    communicate_full_dataset |-> FALSE,
    training_dask_client |-> NoClient,
    acq_func_opt_dask_client |-> NoClient ]

GoParams ==
  [ N : 1..MaxN,
    breaking_error : {0, 1},
    retrain_async_at : Schedules,
    retrain_globally_at : Schedules,
    retrain_locally_at : Schedules,
    update_cost_func_at : CostSchedules,
    acq_func_opt_tol_adjust : {0, 1},
    number_of_suggested_measurements : {1, 2},
    checkpoint_filename : BOOLEAN ]          \* TRUE: a path is given

DefaultGo ==
  [ N |-> MaxN,
    breaking_error |-> 0,
    retrain_async_at |-> {},
    retrain_globally_at |-> {},
    retrain_locally_at |-> {},
    update_cost_func_at |-> {},
    acq_func_opt_tol_adjust |-> 0,
    number_of_suggested_measurements |-> 1,
    checkpoint_filename |-> FALSE ]

\* The parameters are explored in groups: a run differs from the defaults
\* inside one group, in every combination the group allows.
DataConfigs ==
  { << [DefaultCtor EXCEPT !.init_dataset_size = n, !.communicate_full_dataset = f],
       DefaultGo >> : n \in 1..MaxInit, f \in BOOLEAN }

ClientConfigs ==
  { << [DefaultCtor EXCEPT !.training_dask_client = t, !.acq_func_opt_dask_client = a],
       DefaultGo >> : t \in {NoClient, UserTrainingClient}, a \in {NoClient, UserAcqClient} }

StepConfigs ==
  { << [DefaultCtor EXCEPT !.run_every_iteration = h],
       [DefaultGo EXCEPT !.checkpoint_filename = c, !.update_cost_func_at = u] >> :
       h \in BOOLEAN, c \in BOOLEAN, u \in CostSchedules }

StopConfigs ==
  { << [DefaultCtor EXCEPT !.init_dataset_size = s],
       [DefaultGo EXCEPT !.N = n, !.breaking_error = e,
                         !.number_of_suggested_measurements = k] >> :
       s \in 1..MaxInit, n \in 1..MaxN, e \in {0, 1}, k \in {1, 2} }

ScheduleConfigs ==
  { << DefaultCtor, [DefaultGo EXCEPT !.retrain_async_at = a, !.retrain_globally_at = g,
                                      !.retrain_locally_at = l] >> :
       a \in Schedules, g \in Schedules, l \in Schedules }

AskConfigs ==
  { << DefaultCtor, [DefaultGo EXCEPT !.acq_func_opt_tol_adjust = t,
                                      !.number_of_suggested_measurements = n] >> :
       t \in {0, 1}, n \in {1, 2} }

\* an async schedule hit in two iterations, alone or with a synchronous one
RestartConfigs ==
  { << DefaultCtor, [DefaultGo EXCEPT !.retrain_async_at = {1, 2},
                                      !.retrain_globally_at = g] >> :
       g \in Schedules }

\* runs that start with an async training already started by the caller
SingleSchedule(g) ==
  Cardinality({f \in {"retrain_async_at", "retrain_globally_at", "retrain_locally_at"} :
                 g[f] # {}}) <= 1 /\ g.retrain_async_at \cup g.retrain_globally_at \cup g.retrain_locally_at \subseteq {1}
PreTrainedConfigs == ClientConfigs \cup {p \in ScheduleConfigs : SingleSchedule(p[2])}

ExploredConfigs ==
  DataConfigs \cup ClientConfigs \cup StepConfigs \cup StopConfigs
    \cup ScheduleConfigs \cup AskConfigs \cup RestartConfigs

VARIABLES
  ctor,        \* constructor arguments
  cfg,         \* arguments of the running go() call
  pc,          \* position of the controller
  i,           \* iteration index of go()
  n_measurements,
  iters,       \* loop bodies entered in this go() run
  dataset,     \* self.data.dataset: sequence of [id, v]
  x_data,      \* self.x_data: ids of the extracted records
  setting,     \* what acq_func_opt_setting(i) returned
  local_method,
  next_measurement_points,   \* number of rows of res["x"]
  error,
  acq_func_opt_tol,
  break_result,   \* "not_called" | "true" | "false"
  exit,           \* why the loop was left
  branch,         \* training branch taken in this iteration
  async_train_in_progress,
  opt_obj,        \* self.opt_obj
  liveHandles,    \* async-training handles whose tasks run
  goHandles,      \* handles started by the retraining step of go()
  nextHandle,
  hps,            \* where gp_optimizer.hyperparameters come from
  training_dask_client,
  acq_func_opt_dask_client,
  nextClient,
  closeAttempts,  \* clients whose close() was called
  closeRaised,    \* an exception left kill_all_clients
  killCalls,      \* kill_all_clients calls in this go() run
  trace,          \* <<iteration, step>> of the steps go() performed
  told,           \* ids last passed to gp_optimizer.tell
  checkpoint,     \* content of the checkpoint file
  raised,         \* exception that left go()
  disp,           \* a call of find_acquisition_function_maxima
  build,          \* a call of the constructor
  evaluation,     \* a call of evaluate_acquisition_function
  sent            \* what the instrument function was last called with

vars == << ctor, cfg, pc, i, n_measurements, iters, dataset, x_data,
           setting, local_method, next_measurement_points, error, acq_func_opt_tol,
           break_result, exit, branch, async_train_in_progress, opt_obj,
           liveHandles, goHandles, nextHandle, hps, training_dask_client,
           acq_func_opt_dask_client, nextClient, closeAttempts, closeRaised,
           killCalls, trace, told, checkpoint, raised, disp, build,
           evaluation, sent >>

dataVars == << dataset, x_data, told, sent >>
askVars == << setting, local_method, next_measurement_points, error,
             acq_func_opt_tol >>
trainVars == << async_train_in_progress, opt_obj, liveHandles, goHandles,
               nextHandle, hps >>
clientVars == << training_dask_client, acq_func_opt_dask_client, nextClient >>
closeVars == << closeAttempts, closeRaised, killCalls >>
loopVars == << i, n_measurements, iters, break_result, exit >>

Ids(ds) == [j \in 1..Len(ds) |-> ds[j].id]
\* records are identified by their place in the measurement order
LastId(ds) == IF ds = << >> THEN 0 ELSE ds[Len(ds)].id

\* no dispatcher call under way
NoCall == [pc |-> "idle"]

\* __init__: a random initial dataset measured by the instrument, cleaned
InitExperimenter ==
  /\ cfg = DefaultGo
  /\ pc = "idle"
  /\ i = 0
  /\ n_measurements = 0
  /\ iters = 0
  /\ dataset = [j \in 1..ctor.init_dataset_size |-> [id |-> j, v |-> "ok"]]
  /\ x_data = [j \in 1..ctor.init_dataset_size |-> j]
  /\ setting = "none"
  /\ local_method = "none"
  /\ next_measurement_points = 0
  /\ error = 0
  /\ acq_func_opt_tol = InitTol
  /\ break_result = "not_called"
  /\ exit = "none"
  /\ branch = "none"
  /\ async_train_in_progress = FALSE
  /\ opt_obj = NoHandle
  /\ liveHandles = {}
  /\ goHandles = {}
  /\ nextHandle = 1
  /\ hps = [src |-> "init", h |-> NoHandle]
  /\ training_dask_client = ctor.training_dask_client
  /\ acq_func_opt_dask_client = ctor.acq_func_opt_dask_client
  /\ nextClient = FirstOwnClient
  /\ closeAttempts = {}
  /\ closeRaised = FALSE
  /\ killCalls = 0
  /\ trace = << >>
  /\ told = << >>
  /\ sent = << >>
  /\ checkpoint = << >>
  /\ raised = "none"

Init ==
  /\ ctor \in {p[1] : p \in ExploredConfigs}
  /\ InitExperimenter
  /\ disp = NoCall
  /\ build = NoCall
  /\ evaluation = NoCall

\* ------------------------------------------- training (lines 227-327) ----
TrainState ==
  [ flag |-> async_train_in_progress, obj |-> opt_obj, live |-> liveHandles,
    next |-> nextHandle, hps |-> hps, client |-> training_dask_client,
    nextClient |-> nextClient ]

SetTrainState(s) ==
  /\ async_train_in_progress' = s.flag
  /\ opt_obj' = s.obj
  /\ liveHandles' = s.live
  /\ nextHandle' = s.next
  /\ hps' = s.hps
  /\ training_dask_client' = s.client
  /\ nextClient' = s.nextClient

\* train(): blocking, replaces the hyperparameters
train(s, method) == [s EXCEPT !.hps = [src |-> method, h |-> NoHandle]]

\* train_async(dask_client=d): a client is taken or created, a handle started
train_async(s, d) ==
  [s EXCEPT !.client = IF d # NoClient THEN d ELSE s.nextClient,
            !.nextClient = IF d # NoClient THEN @ ELSE @ + 1,
            !.obj = s.next,
            !.live = @ \cup {s.next},
            !.next = @ + 1,
            !.flag = TRUE]

\* kill_training() stopping the handle but leaving the flag set
kill_training_keeps_flag(s) ==
  IF s.flag THEN [s EXCEPT !.live = @ \ {s.obj}] ELSE s

\* kill_training(): stop_async_train(self.opt_obj) only when the flag is set
kill_training(s) ==
  IF s.flag THEN [s EXCEPT !.live = @ \ {s.obj}, !.flag = FALSE] ELSE s

\* update_hps() querying the stored handle whether or not the flag is set
update_hps_unguarded(s, improved) ==
  IF improved THEN [s EXCEPT !.hps = [src |-> "async", h |-> s.obj]] ELSE s

\* update_hps(): poll the handle; improved = the handle holds a better estimate
update_hps(s, improved) ==
  IF s.flag /\ improved THEN [s EXCEPT !.hps = [src |-> "async", h |-> s.obj]] ELSE s

\* kill_all_clients(): the clients whose close() is called; failing = the
\* clients whose close() raises. None.close() raises AttributeError.
kill_all_clients(t, a, failing) ==
  IF t = NoClient THEN {}
  ELSE IF t \in failing THEN {t}
  ELSE IF a = NoClient THEN {t}
  ELSE {t, a}

\* ------------------------------------------------ public calls ----
ApiTrainAsync ==
  /\ pc = "idle" /\ nextHandle <= MaxHandles
  /\ \E d \in {NoClient, UserTrainingClient} : SetTrainState(train_async(TrainState, d))
  /\ UNCHANGED << evaluation, build, disp, ctor, cfg, pc, loopVars, dataVars, askVars, branch, goHandles,
                  acq_func_opt_dask_client, closeVars, trace, checkpoint, raised >>

ApiKillTraining ==
  /\ pc = "idle"
  /\ SetTrainState(kill_training(TrainState))
  /\ UNCHANGED << evaluation, build, disp, ctor, cfg, pc, loopVars, dataVars, askVars, branch, goHandles,
                  acq_func_opt_dask_client, closeVars, trace, checkpoint, raised >>

ApiUpdateHps ==
  /\ pc = "idle"
  /\ \E improved \in BOOLEAN : SetTrainState(update_hps(TrainState, improved))
  /\ UNCHANGED << evaluation, build, disp, ctor, cfg, pc, loopVars, dataVars, askVars, branch, goHandles,
                  acq_func_opt_dask_client, closeVars, trace, checkpoint, raised >>

\* ------------------------------------------------ go() (lines 340-553) ----
Step(name) == trace' = Append(trace, << i, name >>)

\* the global optimizer handing back two members of its population
differential_evolution_pair(D) == [x |-> << 2, D >>, fun |-> << 2 >>]

\* differential_evolution (surrogate_model.py lines 249-259): the shapes of
\* [list(res["x"])] and list([res["fun"]]) for D input dimensions
differential_evolution(D) == [x |-> << 1, D >>, fun |-> << 1 >>]

\* rows of res["x"] the dispatcher can hand back for a method tag when n maxima
\* are sought (surrogate_model.py: global and local give one row, hgdl gives
\* res[0:min(len(res), n)]); no row means the call raised
AskRows(method, n) ==
  CASE method = "global" -> {differential_evolution(1).x[1]}
    [] method = "local" -> {1}
    [] method = "hgdl" -> 1..n
    [] OTHER -> {}

Fill(s) == [j \in 1..Len(s) |-> [s[j] EXCEPT !.v = IF @ = "unfilled" THEN "ok" ELSE @]]

IsUnfilled(r) == r.v = "unfilled"

\* what an instrument function can return for the records it is given: all of
\* them filled in, the last one with a NaN, all but the last, all but the
\* first, only the ones it had to measure, or an exception
InstrumentBehaviours == {"fill", "nan", "drop", "forget", "measured", "raise"}
Measure(f, s) ==
  CASE f = "fill" -> Fill(s)
    [] f = "nan" -> [Fill(s) EXCEPT ![Len(s)].v = "nan"]
    [] f = "drop" -> SubSeq(Fill(s), 1, Len(s) - 1)
    [] f = "forget" -> Tail(Fill(s))
    [] f = "measured" -> Fill(SelectSeq(s, IsUnfilled))

IsClean(r) == r.v # "nan"
\* data.clean_data_NaN()
clean_data_NaN(ds) == SelectSeq(ds, IsClean)
\* data.nan_in_dataset()
nan_in_dataset(ds) == \E j \in 1..Len(ds) : ~IsClean(ds[j])

\* the merged dataset handed on as it came
CleanIncomingSkipped(ds) == ds

\* line 486: if self.data.nan_in_dataset(): self.data.clean_data_NaN()
CleanIncoming(ds) == IF nan_in_dataset(ds) THEN clean_data_NaN(ds) ELSE ds

\* the schedule test with the count after the iteration included
HitClosed(schedule, before, after) == \E n \in before..after : n \in schedule

\* the schedule test of lines 498, 504 and 511
Hit(schedule, before, after) == \E n \in before..(after - 1) : n \in schedule

\* the retraining step with the synchronous branches tested in the other order
TrainingBranchLocalFirst(before, after) ==
  IF Hit(cfg.retrain_async_at, before, after) /\ before < cfg.N THEN "async"
  ELSE IF Hit(cfg.retrain_locally_at, before, after) /\ before < cfg.N THEN "local"
  ELSE IF Hit(cfg.retrain_globally_at, before, after) /\ before < cfg.N THEN "global"
  ELSE "poll"

\* the branch of the retraining step, lines 498-520
TrainingBranch(before, after) ==
  IF Hit(cfg.retrain_async_at, before, after) /\ before < cfg.N THEN "async"
  ELSE IF Hit(cfg.retrain_globally_at, before, after) /\ before < cfg.N THEN "global"
  ELSE IF Hit(cfg.retrain_locally_at, before, after) /\ before < cfg.N THEN "local"
  ELSE "poll"

\* the async branch starting the new training without killing the old one
AsyncRetrainNoKill(s) ==
  LET c == IF s.client = NoClient
             THEN [s EXCEPT !.client = s.nextClient, !.nextClient = @ + 1]
             ELSE s
  IN train_async(c, c.client)

\* lines 499-503: a client is created if there is none, the training in
\* progress is killed, a new async training is started on that client
AsyncRetrain(s) ==
  LET c == IF s.client = NoClient
             THEN [s EXCEPT !.client = s.nextClient, !.nextClient = @ + 1]
             ELSE s
  IN train_async(kill_training(c), c.client)

\* the synchronous branches training without killing the training in progress
SyncRetrainNoKill(s, method) == train(s, method)

\* lines 505-510 and 512-517: the training in progress is killed, then the
\* blocking training runs
SyncRetrain(s, method) == train(kill_training(s), method)

\* the loop condition letting the count reach N + 1
LoopConditionInclusive(n) == n <= cfg.N

\* the loop condition, line 426
LoopCondition(n) == n < cfg.N

\* the break check with the threshold itself counted as reached
BreakDecisionInclusive(err, predicate) ==
  IF err <= cfg.breaking_error THEN "error"
  ELSE IF predicate THEN "predicate"
  ELSE "continue"

\* the break check, lines 539-540: "error", "predicate" or "continue"
BreakDecision(err, predicate) ==
  IF err < cfg.breaking_error THEN "error"
  ELSE IF predicate THEN "predicate"
  ELSE "continue"

\* the retraining step placed before the model update
AfterStepTrainFirst(step) ==
  CASE step = "ask" -> "instrument"
    [] step = "instrument" -> "train"
    [] step = "train" -> "tell"
    [] step = "tell" -> "hook"
    [] step = "hook" -> "checkpoint"
    [] step = "checkpoint" -> "cost"
    [] step = "cost" -> "break"

\* the order of the steps of one iteration, lines 433-540
AfterStep(step) ==
  CASE step = "ask" -> "instrument"
    [] step = "instrument" -> "tell"
    [] step = "tell" -> "train"
    [] step = "train" -> "hook"
    [] step = "hook" -> "checkpoint"
    [] step = "checkpoint" -> "cost"
    [] step = "cost" -> "break"

\* a break that returns from go() instead of leaving the loop
AfterBreakReturn(d) == IF d = "continue" THEN "loop_test" ELSE "done"

\* lines 539-548: a break leads to the clean-up, otherwise the loop goes on
AfterBreak(d) == IF d = "continue" THEN "loop_test" ELSE "cleanup"

\* the method choice forcing the hybrid method for several suggestions
MethodForHybrid(m, n) == IF n > 1 THEN "hgdl" ELSE m

\* lines 436-437: the method handed to ask() for the setting's answer m when
\* n measurements are to be suggested
MethodFor(m, n) == IF n > 1 /\ m # "hgdl" THEN "global" ELSE m

GoStart ==
  /\ pc = "idle"
  /\ \E p \in ExploredConfigs :
       /\ p[1] = ctor
       /\ nextHandle > 1 => p \in PreTrainedConfigs
       /\ cfg' = p[2]
  /\ i' = 0
  /\ n_measurements' = Len(x_data)
  /\ iters' = 0
  /\ break_result' = "not_called"
  /\ exit' = "none"
  /\ pc' = "loop_test"
  /\ UNCHANGED << evaluation, build, disp, ctor, dataVars, askVars, branch, trainVars, clientVars,
                  closeVars, trace, checkpoint, raised >>

LoopTest ==
  /\ pc = "loop_test"
  /\ IF LoopCondition(n_measurements)
       THEN /\ iters < MaxIter
            /\ iters' = iters + 1
            /\ pc' = "ask"
            /\ exit' = exit
       ELSE /\ pc' = AfterBreak("count")
            /\ exit' = "count"
            /\ iters' = iters
  /\ UNCHANGED << evaluation, build, disp, ctor, cfg, i, n_measurements, break_result, dataVars, askVars,
                  branch, trainVars, clientVars, closeVars, trace, checkpoint,
                  raised >>

\* the tolerance following the score with its sign
AdjustedTolSigned(tol, score, adjust) == IF adjust # 0 THEN score * adjust ELSE tol

\* lines 464-466: acq_func_opt_tol = abs(func_evals[0]) * acq_func_opt_tol_adjust
AdjustedTol(tol, score, adjust) == IF adjust # 0 THEN Abs(score) * adjust ELSE tol

\* lines 433-468: method choice, lazy client, ask(), uncertainty, tolerance
Ask ==
  /\ pc = "ask"
  /\ \E m \in SettingMethods :
       LET lm == MethodFor(m, cfg.number_of_suggested_measurements)
           create == lm = "hgdl" /\ acq_func_opt_dask_client = NoClient
       IN /\ setting' = m
          /\ local_method' = lm
          /\ acq_func_opt_dask_client' = IF create THEN nextClient ELSE acq_func_opt_dask_client
          /\ nextClient' = IF create THEN nextClient + 1 ELSE nextClient
          /\ \/ /\ x_data # << >>
                /\ AskRows(lm, cfg.number_of_suggested_measurements) # {}
                /\ \E k \in AskRows(lm, cfg.number_of_suggested_measurements),
                      e \in Errors, sc \in Scores :
                     /\ next_measurement_points' = k
                     /\ error' = e
                     /\ acq_func_opt_tol' =
                          AdjustedTol(acq_func_opt_tol, sc, cfg.acq_func_opt_tol_adjust)
                /\ Step("ask")
                /\ pc' = AfterStep("ask")
                /\ raised' = raised
             \/ /\ x_data = << >> \/ AskRows(lm, cfg.number_of_suggested_measurements) = {}
                /\ raised' = "ask"
                /\ pc' = "aborted"
                /\ UNCHANGED << next_measurement_points, error, acq_func_opt_tol, trace >>
  /\ UNCHANGED << evaluation, build, disp, ctor, cfg, loopVars, dataVars, branch, trainVars,
                  training_dask_client, closeVars, checkpoint >>

\* line 474: inject_arrays(next_measurement_points, info=info)
NewData(ds, points) == [j \in 1..points |-> [id |-> LastId(ds) + j, v |-> "unfilled"]]

\* the instrument given the new records whatever the flag says
InstrumentArgumentNewOnly(full, ds, new_data) == new_data

\* lines 476-479: the argument of instrument_func
InstrumentArgument(full, ds, new_data) == IF full THEN ds \o new_data ELSE new_data

\* the returned records taken for the dataset in both modes
MergedReplacing(full, ds, returned) == returned

\* lines 476-479: the dataset after the call
Merged(full, ds, returned) == IF full THEN returned ELSE ds \o returned

\* an exception of the instrument passed over
InstrumentOutcomeCaught(failed) == AfterStep("instrument")

\* lines 476-479: no try block around the call of instrument_func
InstrumentOutcome(failed) == IF failed THEN "aborted" ELSE AfterStep("instrument")

\* lines 472-479: new records, instrument call, merge
Instrument ==
  /\ pc = "instrument"
  /\ LET new_data == NewData(dataset, next_measurement_points)
         argument == InstrumentArgument(ctor.communicate_full_dataset, dataset, new_data)
     IN \E f \in InstrumentBehaviours :
          /\ sent' = argument
          /\ IF f = "raise"
               THEN /\ raised' = "instrument"
                    /\ pc' = InstrumentOutcome(TRUE)
                    /\ UNCHANGED << dataset, trace >>
               ELSE /\ dataset' = Merged(ctor.communicate_full_dataset, dataset,
                                         Measure(f, argument))
                    /\ Step("instrument")
                    /\ pc' = InstrumentOutcome(FALSE)
                    /\ raised' = raised
  /\ UNCHANGED << evaluation, build, disp, ctor, cfg, loopVars, x_data, told, askVars, branch, trainVars,
                  clientVars, closeVars, checkpoint >>

\* lines 482-490: check, clean, extract, tell
Tell ==
  /\ pc = "tell"
  /\ dataset' = CleanIncoming(dataset)
  /\ x_data' = Ids(dataset')
  /\ told' = x_data'
  /\ Step("tell")
  /\ pc' = AfterStep("tell")
  /\ UNCHANGED << sent, evaluation, build, disp, ctor, cfg, loopVars, askVars, branch, trainVars,
                  clientVars, closeVars, checkpoint, raised >>

\* lines 493-521: the retraining step
Train ==
  /\ pc = "train"
  /\ LET b == TrainingBranch(n_measurements, Len(x_data))
     IN /\ branch' = b
        /\ CASE b = "async" -> SetTrainState(AsyncRetrain(TrainState))
             [] b = "global" -> SetTrainState(SyncRetrain(TrainState, "global"))
             [] b = "local" -> SetTrainState(SyncRetrain(TrainState, "local"))
             [] b = "poll" -> \E improved \in BOOLEAN :
                                SetTrainState(update_hps(TrainState, improved))
        /\ goHandles' = IF b = "async" THEN goHandles \cup {opt_obj'} ELSE goHandles
  /\ Step("train")
  /\ pc' = AfterStep("train")
  /\ UNCHANGED << evaluation, build, disp, ctor, cfg, loopVars, dataVars, askVars, acq_func_opt_dask_client,
                  closeVars, checkpoint, raised >>

\* line 524: the user hook
Hook ==
  /\ pc = "hook"
  /\ IF ctor.run_every_iteration THEN Step("hook") ELSE trace' = trace
  /\ pc' = AfterStep("hook")
  /\ UNCHANGED << evaluation, build, disp, ctor, cfg, loopVars, dataVars, askVars, branch, trainVars,
                  clientVars, closeVars, checkpoint, raised >>

\* a write that appends to the file instead of replacing it
SavedAppending(ds) == checkpoint \o ds

\* line 530: np.save(checkpoint_filename, self.data.dataset), the content of
\* the file after a write that succeeds
Saved(ds) == ds

\* a failed write that is passed over
CheckpointOutcomeSwallowed(saved) == AfterStep("checkpoint")

\* lines 529-532: where go() is after np.save; a failure raises RuntimeError
\* from the exception caught
CheckpointOutcome(saved) == IF saved THEN AfterStep("checkpoint") ELSE "aborted"

\* lines 527-532: np.save of the dataset; a failure is re-raised
Checkpoint ==
  /\ pc = "checkpoint"
  /\ IF cfg.checkpoint_filename
       THEN \E saved \in BOOLEAN :
              IF saved
                THEN /\ checkpoint' = Saved(dataset)
                     /\ Step("checkpoint")
                     /\ pc' = CheckpointOutcome(saved)
                     /\ raised' = raised
                ELSE /\ raised' = "checkpoint"
                     /\ pc' = CheckpointOutcome(saved)
                     /\ UNCHANGED << checkpoint, trace >>
       ELSE /\ pc' = AfterStep("checkpoint")
            /\ UNCHANGED << checkpoint, trace, raised >>
  /\ UNCHANGED << evaluation, build, disp, ctor, cfg, loopVars, dataVars, askVars, branch, trainVars,
                  clientVars, closeVars >>

\* the cost update keyed by the number of measurements
CostUpdateDueByCount(iteration) == Len(x_data) \in cfg.update_cost_func_at

\* line 535: if i in update_cost_func_at
CostUpdateDue(iteration) == iteration \in cfg.update_cost_func_at

\* line 535: the cost update
CostUpdate ==
  /\ pc = "cost"
  /\ IF CostUpdateDue(i) THEN Step("cost") ELSE trace' = trace
  /\ pc' = AfterStep("cost")
  /\ UNCHANGED << evaluation, build, disp, ctor, cfg, loopVars, dataVars, askVars, branch, trainVars,
                  clientVars, closeVars, checkpoint, raised >>

\* the count of the iteration's start carried over
NextCountStale(n, xs) == n

\* line 544: n_measurements = len(self.x_data)
NextCount(n, xs) == Len(xs)

\* lines 538-544: break check, then the iteration numbers
BreakCheck ==
  /\ pc = "break"
  /\ \E predicate \in BOOLEAN :
       LET d == BreakDecision(error, predicate)
       IN /\ break_result' = IF d = "error" THEN "not_called"
                             ELSE IF predicate THEN "true" ELSE "false"
          /\ pc' = AfterBreak(d)
          /\ IF d = "continue"
               THEN /\ i' = i + 1
                    /\ n_measurements' = NextCount(n_measurements, x_data)
                    /\ exit' = exit
                    \* the locals of the finished iteration are dead
                    /\ setting' = "none"
                    /\ local_method' = "none"
                    /\ next_measurement_points' = 0
                    /\ branch' = "none"
                    /\ sent' = << >>
               ELSE /\ exit' = d
                    /\ UNCHANGED << i, n_measurements, setting, local_method,
                                    next_measurement_points, branch, sent >>
  /\ Step("break")
  /\ UNCHANGED << evaluation, build, disp, ctor, cfg, iters, dataset, x_data, told, error, acq_func_opt_tol, trainVars,
                  clientVars, closeVars, checkpoint, raised >>

\* lines 546-548: kill_all_clients, whose except clause swallows every failure
Cleanup ==
  /\ pc = "cleanup"
  /\ \E failing \in SUBSET ({training_dask_client, acq_func_opt_dask_client} \ {NoClient}) :
       closeAttempts' = closeAttempts \cup
         kill_all_clients(training_dask_client, acq_func_opt_dask_client, failing)
  /\ closeRaised' = FALSE
  /\ killCalls' = killCalls + 1
  /\ pc' = "done"
  /\ UNCHANGED << evaluation, build, disp, ctor, cfg, loopVars, dataVars, askVars, branch, trainVars,
                  clientVars, trace, checkpoint, raised >>

Next ==
  \/ ApiTrainAsync
  \/ ApiKillTraining
  \/ ApiUpdateHps
  \/ GoStart
  \/ LoopTest
  \/ Ask
  \/ Instrument
  \/ Tell
  \/ Train
  \/ Hook
  \/ Checkpoint
  \/ CostUpdate
  \/ BreakCheck
  \/ Cleanup

Spec == Init /\ [][Next]_vars

\* ------------- find_acquisition_function_maxima (surrogate_model.py) ----
MaxMaxima == 2     \* largest number_of_maxima_sought
MaxFound == 3      \* most optima get_final() hands back
MaxDim == 2        \* largest input-space dimension D

\* An array is modelled by its shape, << >> being a scalar.
Ndim(shape) == Len(shape)
\* np.array([a])
Wrap(shape) == << 1 >> \o shape
\* number of elements
Size(shape) == IF shape = << >> THEN 1 ELSE IF Len(shape) = 1 THEN shape[1] ELSE shape[1] * shape[2]

DispMethods == {"global", "local", "hgdl", "hgdlAsync", "bogus"}
X0Kinds == {"none", "vector", "batch"}
AcquisitionKinds == {"builtin", "target probability", "callable"}
\* what a user acquisition function may hand back for one position
EvalShapes == {<< >>, << 1 >>, << 2 >>, << 1, 1 >>}

DispCalls ==
  [ method : DispMethods,
    candidate_set : BOOLEAN,                 \* TRUE: a non-empty set
    number_of_maxima_sought : 1..MaxMaxima,
    D : 1..MaxDim,
    x0 : X0Kinds,
    origin : BOOLEAN,                        \* TRUE: not None
    cost_function : BOOLEAN,                 \* TRUE: not None
    cost_function_parameters : {"none", "dict"},
    acquisition_function : AcquisitionKinds ]

\* shape of optimization_x0
X0Shape(c) ==
  CASE c.x0 = "vector" -> << c.D >>
    [] c.x0 = "batch" -> << 2, c.D >>
    [] OTHER -> << >>

\* evaluate_acquisition_function, lines 152-167, for x of shape xshape:
\* cost is what arrives as cost_function ("none", "callable" or "dict"),
\* args whether args is given, user the shape a user function hands back
evaluate_acquisition_function(xshape, acq, origin, cost, args, user) ==
  LET x == IF Ndim(xshape) = 1 THEN Wrap(xshape) ELSE xshape
      called == cost # "none" /\ origin
  IN IF called /\ cost = "dict"
       THEN [raises |-> TRUE, shape |-> << >>, cost_applied |-> FALSE]
     ELSE IF acq = "callable"
       THEN [raises |-> FALSE, shape |-> user, cost_applied |-> called]
     ELSE IF acq = "target probability" /\ ~args
       THEN [raises |-> TRUE, shape |-> << >>, cost_applied |-> FALSE]
     ELSE [raises |-> FALSE, shape |-> << x[1] >>, cost_applied |-> called]

\* func, the partial of lines 36-37
func(c, xshape, user) ==
  evaluate_acquisition_function(xshape, c.acquisition_function, c.origin,
    IF c.cost_function THEN "callable" ELSE "none", TRUE, user)

\* the call of lines 134-136: its positional arguments bind cost_function to
\* number_of_maxima_sought and cost_function_parameters to cost_function;
\* args stays None
FallbackScore(c, xshape, user) ==
  evaluate_acquisition_function(xshape, c.acquisition_function, c.origin,
    c.cost_function_parameters, FALSE, user)

Started(c) ==
  [ in |-> c, pc |-> "call", tasks |-> "none", found |-> 0,
    opti |-> << >>, func_eval |-> << >>, fallback |-> FALSE,
    cost_applied |-> FALSE, err |-> "none", log |-> << >> ]

Raise(d, e) == [d EXCEPT !.pc = "raised", !.err = e]
Logged(d, e) == [d EXCEPT !.log = Append(@, e)]

\* the hgdl branch with cancel_tasks() left out
HgdlAfterNoCancel(step) ==
  CASE step = "create" -> "optimize"
    [] step = "optimize" -> "get_final"
    [] step = "get_final" -> "slice"
    [] step = "cancel_tasks" -> "slice"
    [] step = "slice" -> "check"

\* the order of the hgdl branch, lines 75-89
HgdlAfter(step) ==
  CASE step = "create" -> "optimize"
    [] step = "optimize" -> "get_final"
    [] step = "get_final" -> "cancel_tasks"
    [] step = "cancel_tasks" -> "slice"
    [] step = "slice" -> "check"

\* the cut of line 87 taking one optimum too many
TakenInclusive(found, n) == Min(found, n + 1)

\* line 87: res[0:min(len(res), number_of_maxima_sought)]
Taken(found, n) == Min(found, n)

\* the check of line 140 testing the scores only
ShapesAcceptedScoresOnly(opti, func_eval) == Ndim(func_eval) = 1

\* line 140: the rank check
ShapesAccepted(opti, func_eval) == Ndim(func_eval) = 1 /\ Ndim(opti) = 2

dispUnchanged ==
  UNCHANGED << evaluation, build, ctor, cfg, pc, loopVars, dataVars, askVars, branch,
               trainVars, clientVars, closeVars, trace, checkpoint, raised >>

\* lines 49-54: the name a is not defined
DispCandidateSet ==
  /\ disp.pc = "call" /\ disp.in.candidate_set
  /\ disp' = Raise(disp, "NameError")
  /\ dispUnchanged

\* lines 56-69
DispGlobal ==
  /\ disp.pc = "call" /\ ~disp.in.candidate_set /\ disp.in.method = "global"
  /\ LET r == differential_evolution(disp.in.D)
     IN disp' = [Logged(disp, "devo") EXCEPT !.opti = r.x, !.func_eval = r.fun,
                                             !.pc = "check"]
  /\ dispUnchanged

\* lines 75-80 and 95-100: opt_obj = HGDL(...)
DispHgdlCreate ==
  /\ disp.pc = "call" /\ ~disp.in.candidate_set
  /\ disp.in.method \in {"hgdl", "hgdlAsync"}
  /\ disp' = [Logged(disp, "create") EXCEPT !.pc = HgdlAfter("create")]
  /\ dispUnchanged

\* lines 83-84 and 103-104: the truth value of x0, then optimize()
DispHgdlOptimize ==
  /\ disp.pc = "optimize"
  /\ LET x0 == X0Shape(disp.in)
     IN IF disp.in.x0 # "none" /\ Size(x0) > 1
          THEN disp' = Raise(disp, "ValueError")
          ELSE disp' = [Logged(disp, "optimize") EXCEPT
                          !.tasks = "running",
                          !.pc = IF disp.in.method = "hgdlAsync" THEN "async_return"
                                 ELSE HgdlAfter("optimize")]
  /\ dispUnchanged

\* line 85
DispHgdlGetFinal ==
  /\ disp.pc = "get_final"
  /\ \E found \in 0..MaxFound :
       disp' = [Logged(disp, "get_final") EXCEPT !.found = found,
                                                 !.pc = HgdlAfter("get_final")]
  /\ dispUnchanged

\* line 86
DispHgdlCancel ==
  /\ disp.pc = "cancel_tasks"
  /\ disp' = [Logged(disp, "cancel_tasks") EXCEPT !.tasks = "cancelled",
                                                  !.pc = HgdlAfter("cancel_tasks")]
  /\ dispUnchanged

\* lines 87-89
DispHgdlSlice ==
  /\ disp.pc = "slice"
  /\ LET k == Taken(disp.found, disp.in.number_of_maxima_sought)
     IN disp' = [Logged(disp, "slice") EXCEPT
                   !.opti = IF k = 0 THEN << 0 >> ELSE << k, disp.in.D >>,
                   !.func_eval = << k >>,
                   !.pc = HgdlAfter("slice")]
  /\ dispUnchanged

\* lines 105-107: the handle is handed back with placeholders, unchecked
DispAsyncReturn ==
  /\ disp.pc = "async_return"
  /\ disp' = [Logged(disp, "return") EXCEPT !.opti = << >>, !.func_eval = << >>,
                                            !.pc = "returned"]
  /\ dispUnchanged

\* lines 109-137
DispLocal ==
  /\ disp.pc = "call" /\ ~disp.in.candidate_set /\ disp.in.method = "local"
  /\ \E success \in BOOLEAN, fun \in {<< >>, << 1 >>}, user \in EvalShapes :
       LET x0 == << disp.in.D >>
           solved == [Logged(disp, "minimize") EXCEPT
                        !.opti = Wrap(x0),
                        !.func_eval = IF Ndim(fun) = 0 THEN Wrap(fun) ELSE fun,
                        !.pc = "check"]
           ev == FallbackScore(disp.in, x0, user)
       IN IF success
            THEN disp' = solved
            ELSE IF ev.raises
              THEN disp' = Raise([solved EXCEPT !.fallback = TRUE], "TypeError")
              ELSE disp' = [solved EXCEPT
                              !.fallback = TRUE,
                              !.opti = IF Ndim(x0) # 2 THEN Wrap(x0) ELSE x0,
                              !.func_eval = IF Ndim(ev.shape) # 1 THEN Wrap(ev.shape)
                                            ELSE ev.shape,
                              !.cost_applied = ev.cost_applied]
  /\ dispUnchanged

\* an unknown method tag answered by the global optimizer
InvalidMethodFallsBack(d) ==
  [Logged(d, "devo") EXCEPT !.opti = differential_evolution(d.in.D).x,
                            !.func_eval = differential_evolution(d.in.D).fun,
                            !.pc = "check"]

\* line 139: else: raise ValueError(...)
InvalidMethod(d) == Raise(d, "ValueError")

\* the method tags the if/elif chain of lines 56-109 knows
SupportedMethods == {"global", "hgdl", "hgdlAsync", "local"}

\* line 139
DispInvalid ==
  /\ disp.pc = "call" /\ ~disp.in.candidate_set
  /\ disp.in.method \notin SupportedMethods
  /\ disp' = InvalidMethod(disp)
  /\ dispUnchanged

\* lines 140-146
DispCheck ==
  /\ disp.pc = "check"
  /\ IF ShapesAccepted(disp.opti, disp.func_eval)
       THEN disp' = [Logged(disp, "return") EXCEPT !.pc = "returned"]
       ELSE disp' = Raise(disp, "Exception")
  /\ dispUnchanged

InitDisp ==
  /\ ctor = DefaultCtor
  /\ InitExperimenter
  /\ disp \in {Started(c) : c \in DispCalls}
  /\ build = NoCall
  /\ evaluation = NoCall

NextDisp ==
  \/ DispCandidateSet
  \/ DispGlobal
  \/ DispHgdlCreate
  \/ DispHgdlOptimize
  \/ DispHgdlGetFinal
  \/ DispHgdlCancel
  \/ DispHgdlSlice
  \/ DispAsyncReturn
  \/ DispLocal
  \/ DispInvalid
  \/ DispCheck

SpecDisp == InitDisp /\ [][NextDisp]_vars

\* --------------------- __init__, getting the data ready (lines 170-191) ----
CtorCalls ==
  [ init_dataset_size : 0..MaxInit,          \* 0: None
    x_data : BOOLEAN,                        \* TRUE: given
    y_data : BOOLEAN,
    dataset : BOOLEAN,                       \* TRUE: a file to load
    instrument_func : BOOLEAN,
    fvgp : BOOLEAN ]                         \* TRUE: AutonomousExperimenterFvGP

Building(c) ==
  [ in |-> c, pc |-> "call", data |-> << >>, made |-> FALSE, loaded |-> FALSE,
    calls |-> 0, err |-> "none", size |-> 0,
    hyperparameters |-> "argument",          \* the parameter of __init__
    self_hyperparameters |-> "argument",     \* lines 159 and 705
    init_hyperparameters |-> "none" ]        \* what the optimizer is built with

Unfilled(n) == [j \in 1..n |-> [id |-> j, v |-> "unfilled"]]

\* the instrument called whether or not one was given
InstrumentGuardMissing(given) == "measure"

\* lines 175 and 185: if instrument_func is None: raise Exception(...)
InstrumentGuard(given) == IF given THEN "measure" ELSE "raised"

buildUnchanged ==
  UNCHANGED << evaluation, disp, ctor, cfg, pc, loopVars, dataVars, askVars, branch,
               trainVars, clientVars, closeVars, trace, checkpoint, raised >>

\* lines 170-172: no source of initial data raises, else the gpData is made
CtorCheck ==
  /\ build.pc = "call"
  /\ IF build.in.init_dataset_size = 0 /\ ~build.in.x_data /\ ~build.in.dataset
       THEN build' = [build EXCEPT !.pc = "raised", !.err = "no data"]
       ELSE build' = [build EXCEPT !.pc = "data", !.made = TRUE]
  /\ buildUnchanged

\* lines 173-175: a random dataset, then the instrument guard
CtorRandom ==
  /\ build.pc = "data" /\ ~build.in.x_data /\ ~build.in.dataset
  /\ LET g == InstrumentGuard(build.in.instrument_func)
     IN build' = [build EXCEPT !.data = Unfilled(build.in.init_dataset_size),
                               !.pc = g,
                               !.err = IF g = "raised" THEN "no instrument" ELSE @]
  /\ buildUnchanged

\* lines 177-179 and 728-730: the dataset file is loaded; the snapshot in
\* its last record goes to the name `hyperparameters` in the single-task
\* class and to the attribute self.hyperparameters in the multi-task class
CtorLoad ==
  /\ build.pc = "data" /\ build.in.dataset
  /\ \E n \in 1..MaxInit :
       build' = [build EXCEPT
         !.data = Fill(Unfilled(n)), !.loaded = TRUE,
         !.hyperparameters = IF build.in.fvgp THEN @ ELSE "snapshot",
         !.self_hyperparameters = IF build.in.fvgp THEN "snapshot" ELSE @,
         !.pc = "check"]
  /\ buildUnchanged

\* lines 180-181: positions and values are given
CtorInject ==
  /\ build.pc = "data" /\ ~build.in.dataset
  /\ build.in.x_data /\ build.in.y_data
  /\ \E n \in 1..MaxInit, f \in {"fill", "nan"} :
       build' = [build EXCEPT !.data = Measure(f, Unfilled(n)),
                              !.pc = "check"]
  /\ buildUnchanged

\* lines 182-184: positions without values, the instrument guard comes first
CtorInjectPositions ==
  /\ build.pc = "data" /\ ~build.in.dataset
  /\ build.in.x_data /\ ~build.in.y_data
  /\ \E n \in 1..MaxInit :
       LET g == InstrumentGuard(build.in.instrument_func)
       IN build' = [build EXCEPT !.data = IF g = "raised" THEN @ ELSE Unfilled(n),
                                 !.pc = g,
                                 !.err = IF g = "raised" THEN "no instrument" ELSE @]
  /\ buildUnchanged

\* lines 176 and 185: self.instrument_func(...)
CtorMeasure ==
  /\ build.pc = "measure" /\ build.data # << >>
  /\ \E f \in InstrumentBehaviours :
       IF f = "raise"
         THEN build' = [build EXCEPT !.calls = @ + 1, !.pc = "raised",
                                     !.err = "instrument"]
         ELSE build' = [build EXCEPT !.calls = @ + 1, !.data = Measure(f, build.data),
                                     !.pc = "check"]
  /\ buildUnchanged

\* lines 188-191: check, clean, extract, init_dataset_size
CtorExtract ==
  /\ build.pc = "check"
  /\ build' = [build EXCEPT !.data = CleanIncoming(build.data),
                            !.size = Len(CleanIncoming(build.data)),
                            !.pc = "extracted"]
  /\ buildUnchanged

\* lines 194-195 and 745-748: init_hyperparameters = hyperparameters
CtorOptimizer ==
  /\ build.pc = "extracted"
  /\ build' = [build EXCEPT !.init_hyperparameters = build.hyperparameters,
                            !.pc = "done"]
  /\ buildUnchanged

InitCtor ==
  /\ ctor = DefaultCtor
  /\ InitExperimenter
  /\ disp = NoCall
  /\ build \in {Building(c) : c \in CtorCalls}
  /\ evaluation = NoCall

NextCtor ==
  \/ CtorCheck
  \/ CtorRandom
  \/ CtorLoad
  \/ CtorInject
  \/ CtorInjectPositions
  \/ CtorMeasure
  \/ CtorExtract
  \/ CtorOptimizer

SpecCtor == InitCtor /\ [][NextCtor]_vars

\* ------------- evaluate_acquisition_function, its values (lines 152-245) ----
MaxCost == 3       \* largest value the cost function returns
MaxOut == 2        \* most output positions in x_out

RECURSIVE Factorial(_)
Factorial(n) == IF n <= 1 THEN 1 ELSE n * Factorial(n - 1)

\* scores are written in units of 1/Scale, so that dividing by a cost is exact
Scale == Factorial(MaxCost)

BuiltinKinds ==
  { "variance", "relative information entropy", "relative information entropy set",
    "ucb", "lcb", "maximum", "gradient", "minimum", "probability of improvement",
    "total correlation", "expected improvement", "target probability" }

\* the kinds with a branch for x_out (lines 230-243)
MultiOutputKinds ==
  { "variance", "relative information entropy", "relative information entropy set",
    "total correlation" }

\* what the surrogate engine answers at x: posterior mean, standard deviation,
\* an information measure, the norm of the mean's gradient, a probability
Posteriors ==
  [ mean : {-1, 0, 1}, std : {0, 1}, info : {-1, 1}, slope : {0, 2}, prob : {0, 1} ]

CostInputs ==
  { [cost_function |-> FALSE, origin |-> o, cost |-> 1] : o \in BOOLEAN } \cup
  { [cost_function |-> TRUE, origin |-> o, cost |-> c] : o \in BOOLEAN, c \in 1..MaxCost }

EvalCalls ==
  { [ acq |-> a, gp |-> g, n_out |-> n, args |-> TRUE, user |-> 0,
      cost_function |-> k.cost_function, origin |-> k.origin, cost |-> k.cost ] :
      a \in BuiltinKinds \cup {"bogus"}, g \in Posteriors, n \in {0, MaxOut},
      k \in CostInputs } \cup
  { [ acq |-> "target probability", gp |-> g, n_out |-> 0, args |-> FALSE, user |-> 0,
      cost_function |-> k.cost_function, origin |-> k.origin, cost |-> k.cost ] :
      g \in Posteriors, k \in CostInputs } \cup
  { [ acq |-> "callable", gp |-> g, n_out |-> 0, args |-> TRUE, user |-> u,
      cost_function |-> k.cost_function, origin |-> k.origin, cost |-> k.cost ] :
      g \in {p \in Posteriors : p.slope = 0 /\ p.prob = 0}, u \in Scores \cup {0},
      k \in CostInputs }

Evaluating(c) ==
  [ in |-> c, pc |-> "call", cost_eval |-> 0, obj_eval |-> 0, out |-> 0,
    err |-> "none", before |-> 0, again |-> FALSE ]

Value(v) == [raises |-> FALSE, val |-> v]
NoValue == [raises |-> TRUE, val |-> 0]

\* lines 169-245; the sum over the outputs is n_out equal terms, and the
\* expected improvement std * (gamma * cdf + pdf) is std times a probability
evaluate_gp_acquisition_function(acquisition_function, gp, n_out, args) ==
  IF n_out = 0
    THEN CASE acquisition_function = "variance" -> Value(gp.std * gp.std)
           [] acquisition_function = "relative information entropy" -> Value(0 - gp.info)
           [] acquisition_function = "relative information entropy set" -> Value(0 - gp.info)
           [] acquisition_function = "ucb" -> Value(gp.mean + 3 * gp.std)
           [] acquisition_function = "lcb" -> Value(0 - (gp.mean - 3 * gp.std))
           [] acquisition_function = "maximum" -> Value(gp.mean)
           [] acquisition_function = "gradient" -> Value(gp.slope * gp.std)
           [] acquisition_function = "minimum" -> Value(0 - gp.mean)
           [] acquisition_function = "probability of improvement" -> Value(gp.prob)
           [] acquisition_function = "total correlation" -> Value(0 - gp.info)
           [] acquisition_function = "expected improvement" -> Value(gp.std * gp.prob)
           [] acquisition_function = "target probability" ->
                IF args THEN Value(gp.prob) ELSE NoValue
           [] OTHER -> NoValue
    ELSE CASE acquisition_function = "variance" -> Value(n_out * gp.std * gp.std)
           [] acquisition_function = "relative information entropy" -> Value(0 - gp.info)
           [] acquisition_function = "relative information entropy set" ->
                Value(n_out * (0 - gp.info))
           [] acquisition_function = "total correlation" -> Value(0 - gp.info)
           [] OTHER -> NoValue

\* the cost function applied whenever one is given
cost_eval_without_origin(cost_function, origin, cost) ==
  IF cost_function THEN cost ELSE 1

\* lines 158-161
cost_eval(cost_function, origin, cost) ==
  IF cost_function /\ origin THEN cost ELSE 1

\* the goodness multiplied by the cost
NegatedTimes(obj, cost) == (0 - obj) * Scale * cost

\* lines 163 and 166: -obj_eval / cost_eval
Negated(obj, cost) == ((0 - obj) * Scale) \div cost

evalUnchanged ==
  UNCHANGED << build, disp, ctor, cfg, pc, loopVars, dataVars, askVars, branch,
               trainVars, clientVars, closeVars, trace, checkpoint, raised >>

\* lines 157-161
EvalCost ==
  /\ evaluation.pc = "call"
  /\ evaluation' = [evaluation EXCEPT
       !.cost_eval = cost_eval(evaluation.in.cost_function, evaluation.in.origin,
                               evaluation.in.cost),
       !.pc = "cost"]
  /\ evalUnchanged

\* line 163: a user-defined acquisition function
EvalCallable ==
  /\ evaluation.pc = "cost" /\ evaluation.in.acq = "callable"
  /\ evaluation' = [evaluation EXCEPT
       !.obj_eval = evaluation.in.user,
       !.out = Negated(evaluation.in.user, evaluation.cost_eval),
       !.pc = "done"]
  /\ evalUnchanged

\* line 165
EvalBuiltin ==
  /\ evaluation.pc = "cost" /\ evaluation.in.acq # "callable"
  /\ LET r == evaluate_gp_acquisition_function(evaluation.in.acq, evaluation.in.gp,
                                               evaluation.in.n_out, evaluation.in.args)
     IN IF r.raises
          THEN evaluation' = [evaluation EXCEPT !.pc = "raised", !.err = "Exception"]
          ELSE evaluation' = [evaluation EXCEPT !.obj_eval = r.val, !.pc = "obj"]
  /\ evalUnchanged

\* lines 166-167
EvalNegate ==
  /\ evaluation.pc = "obj"
  /\ evaluation' = [evaluation EXCEPT
       !.out = Negated(evaluation.obj_eval, evaluation.cost_eval),
       !.pc = "done"]
  /\ evalUnchanged

\* the same position and surrogate evaluated once more after the cost
\* function's value there has gone up
EvalCostlier ==
  /\ evaluation.pc = "done" /\ ~evaluation.again
  /\ evaluation.in.cost_function /\ evaluation.in.origin
  /\ \E c \in 1..MaxCost :
       /\ c > evaluation.in.cost
       /\ evaluation' = [evaluation EXCEPT
            !.in.cost = c,
            !.cost_eval = cost_eval(TRUE, TRUE, c),
            !.before = evaluation.out,
            !.out = Negated(evaluation.obj_eval, cost_eval(TRUE, TRUE, c)),
            !.again = TRUE]
  /\ evalUnchanged

InitEval ==
  /\ ctor = DefaultCtor
  /\ InitExperimenter
  /\ disp = NoCall
  /\ build = NoCall
  /\ evaluation \in {Evaluating(c) : c \in EvalCalls}

NextEval ==
  \/ EvalCost
  \/ EvalCallable
  \/ EvalBuiltin
  \/ EvalNegate
  \/ EvalCostlier

SpecEval == InitEval /\ [][NextEval]_vars

\* ================================================================ claims ====
InIteration == pc \in {"ask", "instrument", "tell", "train", "hook", "checkpoint", "cost", "break"}
AfterTraining == branch # "none"
AsyncHit == Hit(cfg.retrain_async_at, n_measurements, Len(x_data))
GlobalHit == Hit(cfg.retrain_globally_at, n_measurements, Len(x_data))
LocalHit == Hit(cfg.retrain_locally_at, n_measurements, Len(x_data))

\* C1: once the retraining step of an iteration has run, the branch it took is
\* the first of async, global, local whose schedule the interval of new
\* measurement counts hits, and the poll otherwise; the branch has had its
\* effect (an async training runs, or the synchronous training of that method
\* set the hyperparameters and no async training is left in progress).
C1_TrainingPriority ==
  AfterTraining =>
    /\ AsyncHit => branch = "async"
    /\ ~AsyncHit /\ GlobalHit => branch = "global"
    /\ ~AsyncHit /\ ~GlobalHit /\ LocalHit => branch = "local"
    /\ ~AsyncHit /\ ~GlobalHit /\ ~LocalHit => branch = "poll"
    /\ branch = "async" => async_train_in_progress /\ opt_obj \in liveHandles
    /\ branch \in {"global", "local"} => ~async_train_in_progress /\ hps.src = branch

C1_Witness ==
  /\ AfterTraining /\ AsyncHit /\ GlobalHit /\ LocalHit
  /\ branch = "async"

C1_WitnessSync ==
  /\ AfterTraining /\ ~AsyncHit /\ GlobalHit /\ LocalHit
  /\ branch = "global"

\* C2: at most one async-training handle has running tasks at any time.
C2_AtMostOneLiveHandle == Cardinality(liveHandles) <= 1

\* C3: an iteration is followed by another one only if none of the terminal
\* conditions holds at its end, and the loop is left after an iteration only if
\* one of them holds: the uncertainty is below breaking_error, the break
\* predicate returned true, or the measurement count reached N.
C3_LeavesLoopOnTerminal ==
  [][ /\ (pc = "break" /\ pc' = "loop_test") =>
           ~(error < cfg.breaking_error) /\ break_result' = "false"
      /\ (pc = "loop_test" /\ pc' = "ask") => Len(x_data) < cfg.N
      /\ (pc = "break" /\ pc' # "loop_test") =>
           /\ pc' = "cleanup"
           /\ error < cfg.breaking_error \/ break_result' = "true"
      /\ (pc = "loop_test" /\ pc' # "ask") =>
           pc' = "cleanup" /\ Len(x_data) >= cfg.N
      /\ pc \in {"cleanup", "done", "aborted"} => pc' \in {"done", "aborted"} ]_vars

C3_Witness == pc = "cleanup" /\ exit = "predicate" /\ iters = 2

\* every instrument call so far added one valid record to the dataset
OneRecordPerIteration ==
  /\ cfg.number_of_suggested_measurements = 1
  /\ Len(dataset) = ctor.init_dataset_size + iters

\* C4 as stated: with one valid zero-variance record per iteration and a zero
\* uncertainty estimate, the run ends within N - init_size iterations with
\* exactly N records.
C4_ExactlyNRecords ==
  ( /\ pc = "done" /\ OneRecordPerIteration
    /\ ctor.init_dataset_size <= cfg.N
    /\ error = 0 /\ exit # "predicate" ) =>
      /\ iters <= cfg.N - ctor.init_dataset_size
      /\ Len(dataset) = cfg.N

\* C4 amended: the run ends within N - init_size iterations with
\* init_size + iterations records, at most N; exactly N when the count ends
\* the loop, and a zero estimate below breaking_error ends it in that iteration.
C4_AtMostNRecords ==
  ( /\ pc = "done" /\ OneRecordPerIteration
    /\ ctor.init_dataset_size <= cfg.N
    /\ exit # "predicate" ) =>
      /\ iters <= cfg.N - ctor.init_dataset_size
      /\ Len(dataset) <= cfg.N
      /\ exit = "count" => Len(dataset) = cfg.N
      /\ (iters > 0 /\ error = 0 /\ cfg.breaking_error > 0) => exit = "error"

C4_Witness ==
  /\ pc = "done" /\ OneRecordPerIteration /\ error = 0 /\ exit = "error"
  /\ iters = 1 /\ Len(dataset) < cfg.N

C4_WitnessFull ==
  /\ pc = "done" /\ OneRecordPerIteration /\ exit = "count"
  /\ iters = 2 /\ Len(dataset) = cfg.N

OwnedClients == {training_dask_client, acq_func_opt_dask_client} \ {NoClient}

\* C5: after the clean-up every owned client has had its close() called, and
\* no close failure left kill_all_clients.
C5_EveryClientClosed ==
  pc = "done" => OwnedClients \subseteq closeAttempts /\ ~closeRaised

\* C6: kill_all_clients has not run while the loop runs, and has run once when
\* go() has returned, whichever terminal condition ended the loop.
C6_TeardownOnce ==
  /\ pc \in {"idle", "loop_test", "cleanup", "aborted"} \/ InIteration => killCalls = 0
  /\ pc = "done" => killCalls = 1 /\ exit \in {"count", "error", "predicate"}

C6_Witness == pc = "done" /\ killCalls = 1 /\ exit = "error" /\ iters = 2

Rank(step) ==
  CASE step = "ask" -> 1 [] step = "instrument" -> 2 [] step = "tell" -> 3
    [] step = "train" -> 4 [] step = "hook" -> 5 [] step = "checkpoint" -> 6
    [] step = "cost" -> 7 [] step = "break" -> 8

\* C7: the steps go() has performed are ordered by iteration and, inside an
\* iteration, as ask, instrument, tell, train, hook, checkpoint, cost update,
\* break check; a step is never performed without the ask, instrument, tell
\* and train steps of its iteration before it, nor before the break check of
\* the iteration before. Stated on neighbours: an ask opens iteration 0 or
\* follows the break check of the iteration before, and any other step
\* follows an earlier step of its own iteration, the one just before it in
\* the order up to train, and train or a later one after that.
C7_StepOrder ==
  \A q \in 1..Len(trace) :
    LET cur == trace[q]
        r == Rank(cur[2])
    IN IF r = 1
         THEN IF q = 1 THEN cur[1] = 0
              ELSE trace[q - 1] = << cur[1] - 1, "break" >>
         ELSE /\ q > 1
              /\ LET prev == trace[q - 1]
                     rp == Rank(prev[2])
                 IN /\ prev[1] = cur[1]
                    /\ rp < r
                    /\ rp >= Min(r - 1, 4)

C7_Witness ==
  /\ Len(trace) >= 14
  /\ \E q \in 1..Len(trace) : trace[q] = << 1, "hook" >>
  /\ \E q \in 1..Len(trace) : trace[q] = << 1, "checkpoint" >>
  /\ \E q \in 1..Len(trace) : trace[q] = << 1, "cost" >>

Returned == disp.pc = "returned"
RanksAsPromised == Ndim(disp.opti) = 2 /\ Ndim(disp.func_eval) = 1

C8_WitnessRaise ==
  /\ disp.pc = "raised" /\ disp.err = "Exception"
  /\ disp.in.method = "local" /\ Ndim(disp.func_eval) = 3

\* C9: when the local solver does not converge, the call does not raise and
\* hands back the starting point as the only candidate with its acquisition
\* score, whatever the cost function, its parameters and the origin are.
C9_FallbackToStart ==
  ( /\ disp.pc # "idle" /\ disp.in.method = "local" /\ disp.fallback
    /\ disp.in.acquisition_function = "builtin" ) =>
      /\ disp.pc # "raised"
      /\ disp.opti = << 1, disp.in.D >>
      /\ disp.func_eval = << 1 >>
      /\ disp.cost_applied = func(disp.in, << disp.in.D >>, << 1 >>).cost_applied

Before(log, a, b) ==
  \E q \in 1..Len(log) : log[q] = b /\ \E r \in 1..(q - 1) : log[r] = a

\* C10: when the synchronous hgdl call returns, the tasks of its handle have
\* been cancelled, after the optima were retrieved and before the return, and
\* at most number_of_maxima_sought optima are handed back.
C10_HgdlCancelsBeforeReturn ==
  (Returned /\ disp.in.method = "hgdl") =>
    /\ disp.tasks = "cancelled"
    /\ Before(disp.log, "get_final", "cancel_tasks")
    /\ Before(disp.log, "cancel_tasks", "return")
    /\ disp.opti[1] <= disp.in.number_of_maxima_sought
    /\ disp.opti[1] <= disp.found

C10_Witness ==
  /\ Returned /\ disp.in.method = "hgdl" /\ disp.tasks = "cancelled"
  /\ disp.found = 3 /\ disp.in.number_of_maxima_sought = 2
  /\ disp.opti = << 2, 2 >>

\* C11: of the async trainings the retraining step of go() has started, at
\* most one has running tasks at any time; right after the async branch that
\* one is the stored handle, started by this step and flagged in progress, so
\* the training that was in progress before was killed first.
C11_OneLoopHandleLive ==
  /\ Cardinality(liveHandles \cap goHandles) <= 1
  /\ branch = "async" =>
       /\ async_train_in_progress
       /\ opt_obj \in goHandles
       /\ liveHandles \cap goHandles = {opt_obj}

C11_Witness ==
  /\ branch = "async" /\ i = 1
  /\ Cardinality(goHandles) = 2
  /\ liveHandles = {opt_obj}

\* C12: kill_training() with a training in progress stops the stored handle
\* and clears the flag, changing nothing else; with none in progress it
\* changes nothing and stops no handle; a second call right after the first
\* changes nothing more.
C12_KillTrainingIdempotent ==
  LET s == TrainState
      k == kill_training(s)
  IN /\ s.flag => k = [s EXCEPT !.flag = FALSE, !.live = s.live \ {s.obj}]
     /\ ~s.flag => k = s
     /\ kill_training(k) = k

C12_Witness ==
  /\ pc = "idle" /\ ~async_train_in_progress
  /\ opt_obj # NoHandle /\ liveHandles = {}

\* C13: update_hps() with no async training in progress changes nothing,
\* whatever the stored handle holds; the poll branch of the retraining step
\* starts no training and stops none, and without a training in progress it
\* leaves the hyperparameters as they are.
C13_PollIsNoOp ==
  [][ /\ \A improved \in BOOLEAN :
           ~async_train_in_progress => update_hps(TrainState, improved) = TrainState
      /\ (pc = "train" /\ branch' = "poll") =>
           /\ UNCHANGED << async_train_in_progress, opt_obj, liveHandles,
                           goHandles, nextHandle, training_dask_client >>
           /\ ~async_train_in_progress => hps' = hps ]_vars

C13_Witness ==
  /\ branch = "poll" /\ ~async_train_in_progress
  /\ opt_obj # NoHandle /\ hps.src = "init"

\* C14: a retraining step that takes the global or local branch stops the
\* async training in progress and leaves the flag cleared and the
\* hyperparameters those of the synchronous training; synchronously trained
\* hyperparameters are replaced by an async result only from the stored
\* handle of a training that is in progress and still running, never from
\* the one that was cancelled.
C14_SyncRetrainCancelsAsync ==
  [][ /\ (pc = "train" /\ branch' \in {"global", "local"}) =>
           /\ ~async_train_in_progress'
           /\ hps' = [src |-> branch', h |-> NoHandle]
           /\ async_train_in_progress => opt_obj \notin liveHandles'
           /\ liveHandles' \subseteq liveHandles
      /\ (hps.src \in {"global", "local"} /\ hps' # hps /\ hps'.src = "async") =>
           /\ async_train_in_progress
           /\ hps'.h = opt_obj
           /\ opt_obj \in liveHandles ]_vars

C14_Witness ==
  /\ branch = "poll" /\ i >= 1
  /\ hps.src \in {"global", "local"}
  /\ opt_obj # NoHandle /\ opt_obj \notin liveHandles

\* C15: after the retraining step of an iteration, a schedule was hit exactly
\* if it holds a count c with before <= c < after, before being the count at
\* the start of the iteration and after the count once the new data were
\* merged and cleaned: the step polled exactly if no schedule holds such a c,
\* took the async branch exactly if the async schedule does, and an iteration
\* that added no record polled.
C15_HalfOpenInterval ==
  AfterTraining =>
    LET InInterval(S) == \E c \in S : n_measurements <= c /\ c < Len(x_data)
    IN /\ branch = "poll" <=>
            ~InInterval(cfg.retrain_async_at \cup cfg.retrain_globally_at
                          \cup cfg.retrain_locally_at)
       /\ branch = "async" <=> InInterval(cfg.retrain_async_at)
       /\ branch \in {"global", "local"} =>
            InInterval(cfg.retrain_globally_at \cup cfg.retrain_locally_at)
       /\ Len(x_data) <= n_measurements => branch = "poll"

C15_Witness ==
  /\ branch = "poll" /\ pc = "hook"
  /\ n_measurements = 1 /\ Len(x_data) = 1
  /\ cfg.retrain_globally_at = {1}

C15_WitnessUpperEnd ==
  /\ branch = "poll" /\ pc = "hook"
  /\ n_measurements = 1 /\ Len(x_data) = 2
  /\ cfg.retrain_globally_at = {2}

\* C16: when the retraining step trains, the number of measurements the model
\* holds is a threshold of the schedule whose branch was taken.
C16_RetrainAtThreshold ==
  (AfterTraining /\ branch # "poll") =>
    LET schedule == CASE branch = "async" -> cfg.retrain_async_at
                      [] branch = "global" -> cfg.retrain_globally_at
                      [] branch = "local" -> cfg.retrain_locally_at
    IN Len(told) \in schedule

C18_SeveralSuggestionsUseHgdl ==
  (local_method # "none" /\ cfg.number_of_suggested_measurements > 1) =>
    local_method = "hgdl"

C19_WitnessGo ==
  /\ pc = "instrument" /\ local_method = "global"
  /\ cfg.number_of_suggested_measurements = 2 /\ next_measurement_points = 1

\* C20: once a checkpoint write has failed, go() has ended with the error
\* raised from that failure: a checkpoint path was given, the steps performed
\* in the iteration of the failure stop before the checkpoint, no cost update
\* or break check of that iteration and no step of a later iteration has been
\* performed, and the clean-up has not run.
C20_CheckpointFailureFatal ==
  raised = "checkpoint" =>
    /\ pc = "aborted"
    /\ cfg.checkpoint_filename
    /\ trace # << >>
    /\ Last(trace)[1] = i /\ Last(trace)[2] \in {"train", "hook"}
    /\ \A q \in 1..Len(trace) :
         /\ trace[q][1] <= i
         /\ trace[q][1] = i => trace[q][2] \notin {"checkpoint", "cost", "break"}
    /\ killCalls = 0

C20_Witness ==
  /\ raised = "checkpoint" /\ pc = "aborted" /\ i = 1
  /\ checkpoint # << >> /\ Len(checkpoint) < Len(dataset)

\* C21: with a checkpoint path, from the checkpoint step of an iteration to
\* the instrument call of the next the file holds the dataset as it is after
\* that iteration's merge and cleaning, record for record in dataset order,
\* and nothing of an older write besides; without a path the file is never
\* written.
C21_CheckpointHoldsDataset ==
  /\ ( /\ cfg.checkpoint_filename /\ iters >= 1
       /\ pc \in {"cost", "break", "loop_test", "cleanup", "done"} ) =>
       /\ checkpoint = dataset
       /\ Ids(checkpoint) = x_data
  /\ ~cfg.checkpoint_filename => checkpoint = << >>

C21_Witness ==
  /\ cfg.checkpoint_filename /\ pc = "done" /\ exit = "predicate" /\ i = 1
  /\ checkpoint = dataset /\ Len(checkpoint) = 3

\* iteration j of the running go() has gone through its cost-update step
PastCostStep(j) ==
  \/ j < i
  \/ j = i /\ \/ pc = "break"
              \/ pc \in {"cleanup", "done"} /\ exit \in {"error", "predicate"}

C23_CostUpdateByCount ==
  (pc = "break" /\ \E q \in 1..Len(trace) : trace[q] = << i, "cost" >>) =>
    \E c \in n_measurements..Len(x_data) : c \in cfg.update_cost_func_at

\* C24: a call of the dispatcher whose method tag is none of the supported
\* ones has, once it has left its entry, raised: no optimizer was run, no
\* task was started, nothing was returned, and without a candidate set the
\* error is the ValueError of the method dispatch.
C24_UnknownMethodRaises ==
  (disp.pc \notin {"idle", "call"} /\ disp.in.method \notin SupportedMethods) =>
    /\ disp.pc = "raised"
    /\ disp.log = << >>
    /\ disp.tasks = "none"
    /\ ~disp.in.candidate_set => disp.err = "ValueError"

C24_Witness ==
  /\ disp.pc = "raised" /\ disp.in.method = "bogus"
  /\ ~disp.in.candidate_set /\ disp.err = "ValueError"

MustMeasure ==
  /\ ~build.in.dataset
  /\ ~build.in.x_data \/ ~build.in.y_data

C25_WitnessNoData ==
  /\ build.pc = "raised" /\ build.err = "no data" /\ build.in.instrument_func

\* C26: whenever evaluate_acquisition_function returns, for a built-in kind
\* or a callable, the value is the negated goodness over the cost: the value
\* times the cost equals minus the goodness, where the cost is the cost
\* function's value if a cost function and an origin are both given and 1
\* otherwise.
C26_NegatedOverCost ==
  evaluation.pc = "done" =>
    LET c == IF evaluation.in.cost_function /\ evaluation.in.origin
               THEN evaluation.in.cost ELSE 1
        g == IF evaluation.in.acq = "callable"
               THEN evaluation.in.user
               ELSE evaluate_gp_acquisition_function(evaluation.in.acq, evaluation.in.gp,
                      evaluation.in.n_out, evaluation.in.args).val
    IN /\ evaluation.in.acq \in BuiltinKinds \cup {"callable"}
       /\ evaluation.out * c = (0 - g) * Scale

C26_Witness ==
  /\ evaluation.pc = "done" /\ ~evaluation.again
  /\ evaluation.in.acq = "ucb"
  /\ evaluation.in.cost_function /\ evaluation.in.origin /\ evaluation.in.cost = 2
  /\ evaluation.obj_eval = 4
  /\ evaluation.out = 0 - 2 * Scale

C26_WitnessNoOrigin ==
  /\ evaluation.pc = "done"
  /\ evaluation.in.acq = "callable" /\ evaluation.in.user = 2
  /\ evaluation.in.cost_function /\ ~evaluation.in.origin /\ evaluation.in.cost = 2
  /\ evaluation.out = 0 - 2 * Scale

\* C27 as stated: whenever the same position is scored again under a larger
\* positive cost, the magnitude of the negated score strictly decreases and
\* the score moves up, away from what the minimiser prefers.
C27_CostLowersPriority ==
  [][EvalCostlier =>
       /\ Abs(evaluation'.out) < Abs(evaluation.out)
       /\ evaluation'.out > evaluation.out]_vars

\* C27, amended: with a cost function and an origin given, a larger positive
\* cost strictly decreases the magnitude of the negated score and lowers the
\* position's priority when the goodness is positive; a goodness of zero
\* leaves the score at zero; a negative goodness also loses magnitude, but
\* its score moves down towards zero, which the minimiser prefers.
C27_CostScalesScore ==
  [][EvalCostlier =>
       /\ evaluation.obj_eval > 0 =>
            /\ Abs(evaluation'.out) < Abs(evaluation.out)
            /\ evaluation'.out > evaluation.out
       /\ evaluation.obj_eval = 0 => evaluation'.out = evaluation.out
       /\ evaluation.obj_eval < 0 =>
            /\ Abs(evaluation'.out) < Abs(evaluation.out)
            /\ evaluation'.out < evaluation.out]_vars

C27_Witness ==
  /\ evaluation.pc = "done" /\ evaluation.again
  /\ evaluation.in.acq = "variance" /\ evaluation.obj_eval = 1
  /\ evaluation.before = 0 - Scale
  /\ evaluation.out > evaluation.before /\ evaluation.out < 0

C27_WitnessNegative ==
  /\ evaluation.pc = "done" /\ evaluation.again
  /\ evaluation.in.acq = "maximum" /\ evaluation.obj_eval = -1
  /\ evaluation.before = Scale
  /\ evaluation.out < evaluation.before /\ evaluation.out > 0

\* C28: with communicate_full_dataset false the instrument is called with
\* exactly the new unfilled records of the iteration and the records already
\* in the dataset stay, unchanged, the prefix of the new dataset; with it
\* true the instrument is called with the whole dataset followed by the new
\* records, and whatever it returns is the new dataset.
C28_CommunicationFlag ==
  [][(pc = "instrument" /\ pc' = "tell") =>
       LET new_data == [j \in 1..next_measurement_points |->
                          [id |-> LastId(dataset) + j, v |-> "unfilled"]]
       IN IF ctor.communicate_full_dataset
            THEN /\ sent' = dataset \o new_data
                 /\ \E f \in InstrumentBehaviours \ {"raise"} : dataset' = Measure(f, sent')
            ELSE /\ sent' = new_data
                 /\ Len(dataset') >= Len(dataset)
                 /\ SubSeq(dataset', 1, Len(dataset)) = dataset
                 /\ \E f \in InstrumentBehaviours \ {"raise"} :
                      SubSeq(dataset', Len(dataset) + 1, Len(dataset')) = Measure(f, sent')]_vars

C28_Witness ==
  /\ pc = "tell" /\ ctor.communicate_full_dataset
  /\ Len(sent) = 3 /\ sent[1].v = "ok" /\ sent[3].v = "unfilled"
  /\ Ids(dataset) = << 2, 3 >>

C28_WitnessNewOnly ==
  /\ pc = "tell" /\ ~ctor.communicate_full_dataset
  /\ Len(sent) = 1 /\ sent[1] = [id |-> 3, v |-> "unfilled"]
  /\ Ids(dataset) = << 1, 2, 3 >>

Increasing(ids) == \A j \in 1..(Len(ids) - 1) : ids[j] < ids[j + 1]

\* C29 as stated: no step of a run makes the dataset shorter, except the
\* cleaning of NaN records, and the records stay in insertion order.
C29_NeverShrinks ==
  [][/\ \/ Len(dataset') >= Len(dataset)
        \/ pc = "tell" /\ nan_in_dataset(dataset)
     /\ Increasing(Ids(dataset'))]_vars

\* C29, amended: with communicate_full_dataset false the old records stay as
\* the prefix of the dataset through the instrument step, so the number of
\* records only decreases through the cleaning of NaN records; with it true
\* the dataset after the instrument step is what the instrument returned, and
\* it is shorter than before only when the instrument returned fewer records
\* than it was given; no other step changes the dataset, and the records
\* stay in insertion order.
C29_GrowsUnlessReplaced ==
  [][/\ \/ dataset' = dataset
        \/ /\ pc = "instrument" /\ ~ctor.communicate_full_dataset
           /\ Len(dataset') >= Len(dataset)
           /\ SubSeq(dataset', 1, Len(dataset)) = dataset
        \/ /\ pc = "instrument" /\ ctor.communicate_full_dataset
           /\ \/ Len(dataset') >= Len(dataset)
              \/ Len(dataset') < Len(sent')
        \/ /\ pc = "tell" /\ nan_in_dataset(dataset)
           /\ dataset' = clean_data_NaN(dataset)
     /\ Increasing(Ids(dataset'))]_vars

C29_Witness ==
  /\ ~ctor.communicate_full_dataset /\ pc = "break" /\ i = 1
  /\ n_measurements = 2 /\ Ids(dataset) = << 1, 2, 3 >>

C29_WitnessCleaned ==
  /\ ~ctor.communicate_full_dataset /\ pc = "train" /\ i = 0
  /\ next_measurement_points = 2 /\ Len(sent) = 2
  /\ n_measurements = 1 /\ Ids(dataset) = << 1, 2 >>

C30_WitnessNaN ==
  /\ pc = "tell" /\ nan_in_dataset(dataset) /\ Len(dataset) = 3

\* C31: an exception of the instrument function ends go() there and then:
\* the step on which it is raised leaves the dataset, the arrays told to the
\* surrogate, the training state, the checkpoint and the steps performed as
\* they were, go() is left with that exception, and no step is ever taken
\* from a go() that was left with an exception.
C31_InstrumentFailurePropagates ==
  [][/\ (pc = "instrument" /\ raised' = "instrument") =>
          /\ pc' = "aborted"
          /\ UNCHANGED << dataset, x_data, told, trainVars, checkpoint, trace, i,
                          iters, killCalls >>
     /\ raised = "instrument" => pc = "aborted" /\ UNCHANGED vars]_vars

C31_Witness ==
  /\ raised = "instrument" /\ pc = "aborted" /\ i = 1
  /\ Last(trace) = << 1, "ask" >>
  /\ told # << >> /\ Len(sent) > 0

\* C32: when go() has returned or has been left with an exception, no async
\* training that its retraining step started still has running tasks.
C32_LoopHandlesDisposed ==
  pc \in {"done", "aborted"} => liveHandles \cap goHandles = {}

\* the roles for which the constructor was given no client
RolesWithoutClient ==
  {r \in {"training", "acquisition"} :
     \/ r = "training" /\ ctor.training_dask_client = NoClient
     \/ r = "acquisition" /\ ctor.acq_func_opt_dask_client = NoClient}

\* C33: a client given to the constructor is never replaced by one the
\* program creates, and over any sequence of train_async and go() calls the
\* program creates at most one client for each role that was given none.
C33_ClientsCreatedOnce ==
  /\ ctor.training_dask_client # NoClient => training_dask_client < FirstOwnClient
  /\ ctor.acq_func_opt_dask_client # NoClient =>
       acq_func_opt_dask_client = ctor.acq_func_opt_dask_client
  /\ nextClient - FirstOwnClient <= Cardinality(RolesWithoutClient)

\* C34: the tolerance is only ever changed by the ask step; with a non-zero
\* adjust factor the ask step of an iteration leaves, for the ask of the next
\* iteration, the absolute value of the score it found times the factor; with
\* a factor of zero the tolerance is the initial one in every iteration.
C34_AdaptiveTolerance ==
  [][/\ (pc = "ask" /\ pc' = "instrument") =>
          IF cfg.acq_func_opt_tol_adjust # 0
            THEN \E sc \in Scores :
                   acq_func_opt_tol' = Abs(sc) * cfg.acq_func_opt_tol_adjust
            ELSE acq_func_opt_tol = InitTol /\ acq_func_opt_tol' = InitTol
     /\ pc # "ask" => acq_func_opt_tol' = acq_func_opt_tol]_vars

\* the second ask about to be made with the tolerance the first one left
C34_Witness ==
  /\ pc = "ask" /\ i = 1 /\ cfg.acq_func_opt_tol_adjust = 1
  /\ acq_func_opt_tol = 2

C34_WitnessFixed ==
  /\ pc = "ask" /\ i = 1 /\ cfg.acq_func_opt_tol_adjust = 0
  /\ acq_func_opt_tol = InitTol

ScheduleOf(b) ==
  CASE b = "async" -> cfg.retrain_async_at
    [] b = "global" -> cfg.retrain_globally_at
    [] b = "local" -> cfg.retrain_locally_at
    [] OTHER -> {}

AllThresholds ==
  cfg.retrain_async_at \cup cfg.retrain_globally_at \cup cfg.retrain_locally_at

\* C35: the scheduler interval of the first iteration starts at the initial
\* count and that of every later iteration where the one before ended; a
\* retraining is started exactly when a threshold lies in the interval of the
\* iteration, from its start up to but not including the count after the
\* model update. While the count never decreases (the instrument's records
\* being appended), the intervals start at or above the initial count and
\* move upwards only, so a threshold below the initial count never starts a
\* retraining and the async trainings started number at most the async
\* thresholds.
C35_ThresholdFiresOnce ==
  [][/\ (pc = "idle" /\ pc' = "loop_test") => n_measurements' = Len(x_data)
     /\ (pc = "break" /\ pc' = "loop_test") => n_measurements' = Len(x_data)
     /\ pc \notin {"idle", "break"} => n_measurements' = n_measurements
     /\ pc = "train" =>
          /\ branch' # "poll" =>
               \E t \in ScheduleOf(branch') : n_measurements <= t /\ t < Len(x_data)
          /\ branch' = "poll" =>
               \A t \in AllThresholds : ~(n_measurements <= t /\ t < Len(x_data))
     /\ (~ctor.communicate_full_dataset /\ pc # "idle") =>
          /\ Len(x_data') >= Len(x_data)
          /\ n_measurements' >= n_measurements
          /\ n_measurements >= ctor.init_dataset_size
          /\ Cardinality(goHandles') <= Cardinality(cfg.retrain_async_at)]_vars

\* the threshold 1 has started one async training, in the first iteration,
\* and the second iteration has polled
C35_Witness ==
  /\ ~ctor.communicate_full_dataset /\ cfg.retrain_async_at = {1}
  /\ pc = "hook" /\ i = 1 /\ branch = "poll"
  /\ n_measurements = 2 /\ Len(x_data) = 3
  /\ Cardinality(goHandles) = 1

\* C36 as stated: an iteration only starts with a count below N, and go()
\* ends with fewer than N + number_of_suggested_measurements records.
C36_FewerThanTargetPlusBatch ==
  /\ InIteration => n_measurements < cfg.N
  /\ pc \in {"cleanup", "done"} =>
       Len(dataset) < cfg.N + cfg.number_of_suggested_measurements

\* C36, amended: an iteration only starts with a count below N; a go() whose
\* loop body ran ends with fewer than N + number_of_suggested_measurements
\* records; a go() called on a dataset of N or more records ends with that
\* dataset, however large.
C36_BoundedOvershoot ==
  /\ InIteration => n_measurements < cfg.N
  /\ (pc \in {"cleanup", "done"} /\ iters >= 1) =>
       Len(dataset) < cfg.N + cfg.number_of_suggested_measurements
  /\ (pc \in {"cleanup", "done"} /\ iters = 0) =>
       /\ Len(dataset) = ctor.init_dataset_size
       /\ Len(dataset) >= cfg.N

C36_Witness ==
  /\ pc = "done" /\ exit = "count" /\ iters >= 1
  /\ cfg.N = 3 /\ cfg.number_of_suggested_measurements = 2
  /\ Len(dataset) = 4

\* C37: a go() called on a dataset that holds N records or more never enters
\* the loop body: no step of an iteration is performed, nothing is asked,
\* sent to the instrument, told, trained, checkpointed or raised, the dataset
\* is as it was at the call, and go() returns after one call of
\* kill_all_clients.
C37_NoIterationAtTarget ==
  (pc # "idle" /\ ctor.init_dataset_size >= cfg.N) =>
    /\ pc \in {"loop_test", "cleanup", "done"}
    /\ iters = 0 /\ i = 0 /\ trace = << >>
    /\ dataset = [j \in 1..ctor.init_dataset_size |-> [id |-> j, v |-> "ok"]]
    /\ x_data = Ids(dataset)
    /\ sent = << >> /\ told = << >> /\ checkpoint = << >>
    /\ next_measurement_points = 0 /\ branch = "none" /\ goHandles = {}
    /\ raised = "none"
    /\ pc = "done" <=> killCalls = 1
    /\ pc # "done" => killCalls = 0
    /\ pc # "loop_test" => exit = "count"

C37_Witness ==
  /\ pc = "done" /\ killCalls = 1 /\ exit = "count" /\ iters = 0
  /\ ctor.init_dataset_size = 2 /\ cfg.N = 1 /\ Len(dataset) = 2

\* C38: an experimenter of either class built from a dataset file has its
\* optimizer initialised with the hyperparameter snapshot of the file's last
\* record.
C38_ResumeRestoresHyperparameters ==
  (build.pc = "done" /\ build.in.dataset) => build.init_hyperparameters = "snapshot"
====
